---- MODULE Spec2Model ----
(***************************************************************************)
(* Model of src/src/main.py: the Drudge Report scraper.                    *)
(*                                                                         *)
(* Stage one fetches the aggregator page, pushes one "headline" record per *)
(* unique headline text and one "link" record per anchor that survives the *)
(* keyword / hostname exclusion lists.  Stage two, run only when           *)
(* OPENAI_API_KEY is set, probes every surviving link for iframe           *)
(* compatibility and, for the links that are not compatible, fetches the   *)
(* page, extracts its main text and asks OpenAI for a story.               *)
(*                                                                         *)
(* Strings are sequences of symbols.  A symbol is a character where the    *)
(* code looks inside the string (link text, response text) and a whole     *)
(* token where it only compares or searches for whole tokens (header       *)
(* values, host labels, sentinel bodies).                                  *)
(* datetime.now() timestamps are left out of the records.                  *)
(***************************************************************************)
EXTENDS Integers, Sequences, FiniteSets, TLC

\* ------------------------------------------------------------------ bounds

\* anchors (<a href>) on the fetched page
MaxAnchors == 2
\* elements matched by the headline selectors
MaxHeadlines == 1
\* source expressions after a CSP directive name
MaxSources == 2

\* ----------------------------------------------------------------- strings

\* str.lower() on one symbol
LowerSym(c) ==
  CASE c = "T" -> "t"
    [] c = "I" -> "i"
    [] c = "P" -> "p"
    [] c = "M" -> "m"
    [] c = "DENY" -> "deny"
    [] c = "Deny" -> "deny"
    [] c = "SAMEORIGIN" -> "sameorigin"
    [] c = "SameOrigin" -> "sameorigin"
    [] c = "ALLOW-FROM" -> "allow-from"
    [] c = "WWW" -> "www"
    [] c = "CNN.COM" -> "cnn.com"
    [] OTHER -> c

\* str.lower()
Lower(s) == [i \in DOMAIN s |-> LowerSym(s[i])]

\* Python's `sub in s` on strings
Contains(s, sub) ==
  \E i \in 0..(Len(s) - Len(sub)) : SubSeq(s, i + 1, i + Len(sub)) = sub

\* str.strip(): leading and trailing whitespace removed
RECURSIVE LStrip(_)
LStrip(s) == IF s # <<>> /\ Head(s) = " " THEN LStrip(Tail(s)) ELSE s

RECURSIVE RStrip(_)
RStrip(s) ==
  IF s # <<>> /\ s[Len(s)] = " " THEN RStrip(SubSeq(s, 1, Len(s) - 1)) ELSE s

Strip(s) == RStrip(LStrip(s))

\* ---------------------------------------------------- check_iframe_compatibility

\* A Content-Security-Policy header is generated as a list of directives,
\* each a name and its source expressions, and rendered to the header text
\* "name src src; name src": the code only ever sees the rendered text.
RECURSIVE RenderSources(_)
RenderSources(vs) ==
  IF vs = <<>> THEN <<>> ELSE <<" ", Head(vs)>> \o RenderSources(Tail(vs))

RenderDirective(d) == <<d.name>> \o RenderSources(d.sources)

RECURSIVE RenderCSP(_)
RenderCSP(ds) ==
  IF ds = <<>> THEN <<>>
  ELSE IF Len(ds) = 1 THEN RenderDirective(Head(ds))
  ELSE RenderDirective(Head(ds)) \o <<";", " ">> \o RenderCSP(Tail(ds))

\* the exceptions client.head / raise_for_status can raise, and the httpx
\* class hierarchy the except clauses test
IsHTTPStatusError(e) == e = "HTTPStatusError"
IsRequestError(e) == e \in {"ConnectError", "ReadTimeout", "UnsupportedProtocol"}

\* mutant: X-Frame-Options compared without .lower()
check_iframe_compatibility_NoLower(resp) ==
  IF resp.exc # "" THEN FALSE
  ELSE
    LET csp == RenderCSP(resp.csp)
    IN  IF resp.xfo = <<"deny">> \/ resp.xfo = <<"sameorigin">>
        THEN FALSE
        ELSE IF Contains(csp, <<"frame-ancestors">>)
                /\ (\/ Contains(csp, <<"frame-ancestors", " ", "'none'">>)
                    \/ Contains(csp, <<"frame-ancestors", " ", "'src'">>))
        THEN FALSE
        ELSE TRUE

\* check_iframe_compatibility(url), as a function of what the HEAD probe
\* did: resp.exc is "" for a 2xx response, else the exception raised;
\* resp.xfo is the X-Frame-Options value ('' when absent), resp.csp the
\* Content-Security-Policy directives ('' when absent).
check_iframe_compatibility(resp) ==
  IF resp.exc # "" THEN
    \* all three except clauses return False
    IF IsHTTPStatusError(resp.exc) THEN FALSE
    ELSE IF IsRequestError(resp.exc) THEN FALSE
    ELSE FALSE
  ELSE
    LET x_frame_options == Lower(resp.xfo)
        csp == RenderCSP(resp.csp)
    IN  IF x_frame_options = <<"deny">> \/ x_frame_options = <<"sameorigin">>
        THEN FALSE
        ELSE IF Contains(csp, <<"frame-ancestors">>)
                /\ (\/ Contains(csp, <<"frame-ancestors", " ", "'none'">>)
                    \/ Contains(csp, <<"frame-ancestors", " ", "'src'">>))
        THEN FALSE
        ELSE TRUE

\* --------------------------------------------------------------- URLs

\* An href is scheme + [ "//" host ] + rest.  scheme is "" when the href has
\* none; slashes says whether "//" follows; host is a sequence of labels
\* (<<>> when the href has no authority); rest is the path, query and
\* fragment as symbols.
NoHost == <<>>

Href(scheme, slashes, host, rest) ==
  [scheme |-> scheme, slashes |-> slashes, host |-> host, rest |-> rest]

\* element.get('href') of an element without the attribute
NoneHref == Href("None", FALSE, NoHost, <<>>)

drudge_url == Href("https", TRUE, <<"www", "drudgereport.com">>, <<"/">>)

\* urlsplit raises ValueError("Invalid IPv6 URL") on an unbalanced bracket
RaisesValueError(u) == \E i \in DOMAIN u.host : u.host[i] = "[bad"

\* urljoin(base, url) for the hrefs that reach it (RFC 3986 resolution): an
\* href with a scheme of its own other than the base's is returned as it is,
\* an href without one takes the base's scheme and authority and resolves
\* its path against the base path "/".
urljoin(base, url) ==
  IF url.scheme # "" /\ url.scheme # base.scheme THEN url
  ELSE IF url.slashes THEN Href(base.scheme, TRUE, url.host, url.rest)
  ELSE Href(base.scheme, base.slashes, base.host,
            IF url.rest # <<>> /\ Head(url.rest) = "/" THEN url.rest
            ELSE <<"/">> \o url.rest)

\* urlparse(u).hostname: None without an authority, else lower-cased
Hostname(u) == IF u.slashes THEN Lower(u.host) ELSE NoHost

\* ------------------------------------------------------- exclusion lists

\* excluded_text_keywords and excluded_domains, cut to the entries the
\* model's pages can hit
excluded_text_keywords == << <<"t", "i", "p">>, <<"m", "a", "i", "l">> >>

excluded_domains == { <<"drudgereport.com">>, <<"cnn.com">> }

\* lines 231-236: the keyword loop
KeywordExcluded(text) ==
  \E k \in DOMAIN excluded_text_keywords :
    Contains(Lower(text), Lower(excluded_text_keywords[k]))

\* lines 243-244: hostname, lower-cased, one leading "www." removed
NormalizedHostname(u) ==
  LET hostname == Hostname(u)
  IN  IF Len(hostname) >= 2 /\ hostname[1] = "www" THEN Tail(hostname)
      ELSE hostname

\* lines 241-249: the hostname check; a ValueError leaves should_exclude False
DomainExcluded(u) ==
  IF RaisesValueError(u) THEN FALSE
  ELSE NormalizedHostname(u) \in excluded_domains

\* ----------------------------------------------------- get_page_main_content

content_selectors ==
  << "article", "main", ".main-content", "#main-content", ".article-body",
     "div[role=main]", "div.story-content", "div.entry-content",
     "div.post-content", "div.content-body", "body" >>

unwanted_tags == {"script", "style", "nav", "footer", "header", "aside"}

\* element.get_text(separator=' ', strip=True) once the unwanted tags are
\* decomposed: an element is the sequence of its child nodes [tag, text]
RECURSIVE get_text(_)
get_text(element) ==
  IF element = <<>> THEN <<>>
  ELSE IF Head(element).tag \in unwanted_tags THEN get_text(Tail(element))
  ELSE LET rest == get_text(Tail(element))
       IN  IF rest = <<>> THEN <<Head(element).text>>
           ELSE <<Head(element).text, " ">> \o rest

\* lines 67-75: a document maps each selector that matches to the first
\* element it matches; the first selector of the list that matches wins
RECURSIVE SelectFrom(_, _)
SelectFrom(doc, i) ==
  IF i > Len(content_selectors) THEN <<>>
  ELSE IF content_selectors[i] \in DOMAIN doc THEN get_text(doc[content_selectors[i]])
  ELSE SelectFrom(doc, i + 1)

\* get_page_main_content(url) as a function of what the GET did: every
\* except clause returns ""
get_page_main_content(result) ==
  IF result.exc # "" THEN <<>> ELSE SelectFrom(result.doc, 1)

\* ------------------------------------------------ generate_story_with_openai

NoContentSentinel == <<"[No content to summarize/generate story from]">>
ConnectionSentinel == <<"[OpenAI API connection error]">>
RateLimitSentinel == <<"[OpenAI API rate limit exceeded]">>
StatusSentinel == <<"[OpenAI API error]">>
GeneralSentinel == <<"[Error generating story with OpenAI]">>

\* the openai exception hierarchy the except clauses test
IsAPIConnectionError(e) == e \in {"APIConnectionError", "APITimeoutError"}
IsRateLimitError(e) == e = "RateLimitError"
IsAPIStatusError(e) == e \in {"RateLimitError", "InternalServerError"}

\* mutant: the response text returned without .strip()
StoryFromOutcome_NoStrip(out) ==
  IF out.exc = "" /\ out.content # <<"None">> THEN out.content
  ELSE IF IsAPIConnectionError(out.exc) THEN ConnectionSentinel
  ELSE IF IsRateLimitError(out.exc) THEN RateLimitSentinel
  ELSE IF IsAPIStatusError(out.exc) THEN StatusSentinel
  ELSE GeneralSentinel

\* mutant: `except openai.APIStatusError` placed before its subclass
\* RateLimitError
StoryFromOutcome_StatusFirst(out) ==
  IF out.exc = "" /\ out.content # <<"None">> THEN Strip(out.content)
  ELSE IF IsAPIConnectionError(out.exc) THEN ConnectionSentinel
  ELSE IF IsAPIStatusError(out.exc) THEN StatusSentinel
  ELSE IF IsRateLimitError(out.exc) THEN RateLimitSentinel
  ELSE GeneralSentinel

\* lines 105-128: what the function returns once chat.completions.create
\* has answered; out.exc is "" when the call returned, and out.content is the
\* message content, <<"None">> when the response carries none (.strip() on
\* None raises AttributeError, caught by `except Exception`)
StoryFromOutcome(out) ==
  IF out.exc = "" /\ out.content # <<"None">> THEN Strip(out.content)
  ELSE IF IsAPIConnectionError(out.exc) THEN ConnectionSentinel
  ELSE IF IsRateLimitError(out.exc) THEN RateLimitSentinel
  ELSE IF IsAPIStatusError(out.exc) THEN StatusSentinel
  ELSE GeneralSentinel

\* whether generate_story_with_openai(text_content, ...) reaches the API
\* call (line 91)
CallsOpenAI(text_content) == text_content # <<>>

\* ------------------------------------------------------------ inputs

\* the anchors a page is made of
PageAnchors ==
  { [href |-> Href("https", TRUE, <<"example.org">>, <<"/", "news">>), text |-> <<"n", "e", "w", "s">>],
    [href |-> Href("", TRUE, <<"example.org">>, <<"/", "news">>), text |-> <<>>],
    [href |-> Href("https", TRUE, <<"WWW", "CNN.COM">>, <<>>), text |-> <<"n", "e", "w", "s">>],
    [href |-> Href("https", TRUE, <<"example.org">>, <<>>), text |-> <<"T", "i", "p">>],
    [href |-> Href("", FALSE, NoHost, <<"#", "top">>), text |-> <<"n", "e", "w", "s">>],
    [href |-> Href("http", TRUE, <<"[bad">>, <<>>), text |-> <<"n", "e", "w", "s">>],
    [href |-> Href("ftp", TRUE, <<"[bad">>, <<>>), text |-> <<"n", "e", "w", "s">>] }

\* the elements the headline selectors match, selector by selector: a <b>
\* has no href, an <a> has the raw one
PageHeadlines ==
  { [text |-> <<"n", "e", "w", "s">>, href |-> NoneHref],
    [text |-> <<>>, href |-> Href("", FALSE, NoHost, <<"news">>)] }

SeqsUpTo(S, n) == UNION { [1..k -> S] : k \in 0..n }

Sources == {"'none'", "'src'", "'self'"}

Directives ==
  [name : {"frame-ancestors", "script-src"}, sources : SeqsUpTo(Sources, MaxSources)]

CSPs == {<<>>} \cup { <<d>> : d \in Directives } \cup { <<d, e>> : d, e \in Directives }

XFrameOptions ==
  { <<>>, <<"DENY">>, <<"Deny">>, <<"SameOrigin">>, <<"ALLOW-FROM", " ", "x">>,
    <<" ", "deny">> }

ProbeExceptions ==
  {"HTTPStatusError", "ConnectError", "ReadTimeout", "UnsupportedProtocol", "InvalidURL"}

Probe(exc, xfo, csp) == [exc |-> exc, xfo |-> xfo, csp |-> csp]

\* every probe outcome: a 2xx response with its two headers, or an exception
ProbeResponses ==
  { Probe("", x, c) : x \in XFrameOptions, c \in CSPs }
  \cup { Probe(e, <<>>, <<>>) : e \in ProbeExceptions }

\* the probe outcomes of a whole run
RunProbeResponses ==
  { Probe("", <<>>, <<>>),
    Probe("", <<"SameOrigin">>, <<>>),
    Probe("ReadTimeout", <<>>, <<>>) }

Node(tag, text) == [tag |-> tag, text |-> text]

\* what the GET of a link's page can do
FetchResults ==
  { [exc |-> "HTTPStatusError", doc |-> <<>>],
    [exc |-> "", doc |-> <<>>],
    [exc |-> "", doc |-> ("article" :> <<>>) @@ ("body" :> <<Node("p", "b")>>)],
    [exc |-> "", doc |-> ("main" :> <<Node("nav", "n"), Node("p", "a")>>)
                          @@ ("body" :> <<Node("p", "b")>>)] }

\* what chat.completions.create can do
OpenAIOutcomes ==
  { [exc |-> "", content |-> <<" ", "s", " ">>],
    [exc |-> "", content |-> <<"None">>],
    [exc |-> "APITimeoutError", content |-> <<>>],
    [exc |-> "RateLimitError", content |-> <<>>],
    [exc |-> "InternalServerError", content |-> <<>>],
    [exc |-> "ValueError", content |-> <<>>] }

\* ------------------------------------------------------------- state

VARIABLES
  headline_elements,        \* soup.select(selector) over headline_selectors, in order
  anchors,                  \* soup.find_all('a', href=True)
  openai_api_key,           \* os.getenv('OPENAI_API_KEY'), "" when unset
  pc,                       \* where main() is
  caught,                   \* the except clause of lines 301-306 that ended the run, and the exception
  inflight,                 \* the awaited external calls not yet returned
  pending,                  \* the record handed to the push_data in flight
  dataset,                  \* the records Actor.push_data has stored
  extracted_headline_texts,
  h,                        \* index of the headline element being visited
  a,                        \* index of the anchor being visited
  initial_drudge_links,
  extracted_link_count,
  filtered_out_count,
  processed_link_count,
  l,                        \* index of link_info in initial_drudge_links
  probe_response,           \* what the last HEAD probe did
  is_iframe_compatible,
  article_content,
  generated_story,
  log                       \* history: the calls made and what they returned, per link

vars ==
  << headline_elements, anchors, openai_api_key, pc, caught, inflight, pending,
     dataset, extracted_headline_texts, h, a, initial_drudge_links,
     extracted_link_count, filtered_out_count, processed_link_count, l,
     probe_response, is_iframe_compatible, article_content, generated_story, log >>

page == << headline_elements, anchors, openai_api_key >>
stage1 == << extracted_headline_texts, h, a, initial_drudge_links,
             extracted_link_count, filtered_out_count >>
stage2 == << processed_link_count, l, probe_response, is_iframe_compatible,
             article_content, generated_story >>

NoRecord == [type |-> "none"]

NotCaught == [clause |-> "", exc |-> ""]

Event(ev, link, exc, val) == [ev |-> ev, link |-> link, exc |-> exc, val |-> val]

InitLocals ==
  /\ pc = "start"
  /\ caught = NotCaught
  /\ inflight = {}
  /\ pending = NoRecord
  /\ dataset = <<>>
  /\ extracted_headline_texts = {}
  /\ h = 1
  /\ a = 1
  /\ initial_drudge_links = <<>>
  /\ extracted_link_count = 0
  /\ filtered_out_count = 0
  /\ processed_link_count = 0
  /\ l = 1
  /\ probe_response = Probe("", <<>>, <<>>)
  /\ is_iframe_compatible = FALSE
  /\ article_content = <<>>
  /\ generated_story = <<>>
  /\ log = <<>>

Init ==
  /\ headline_elements \in SeqsUpTo(PageHeadlines, MaxHeadlines)
  /\ anchors \in SeqsUpTo(PageAnchors, MaxAnchors)
  /\ openai_api_key \in {"", "sk"}
  /\ InitLocals

\* ---------------------------------------------------------- stage one

\* an exception leaves the `try` of line 143 for the clauses of lines 301-306
Raise(exc) ==
  /\ pc' = "done"
  /\ caught' = [clause |-> IF IsHTTPStatusError(exc) THEN "httpx.HTTPStatusError"
                            ELSE IF IsRequestError(exc) THEN "httpx.RequestError"
                            ELSE "Exception",
                 exc |-> exc]

\* line 146: await client.get(drudge_url, timeout=15)
FetchDrudge ==
  /\ pc = "start"
  /\ inflight' = inflight \cup {"client.get(drudge_url)"}
  /\ pc' = "await_drudge"
  /\ UNCHANGED << page, caught, pending, dataset, stage1, stage2, log >>

\* lines 146-149: the page arrives, or the fetch / raise_for_status raises
DrudgeFetched ==
  /\ pc = "await_drudge"
  /\ inflight' = inflight \ {"client.get(drudge_url)"}
  /\ \/ pc' = "headlines" /\ UNCHANGED caught
     \/ \E exc \in {"HTTPStatusError", "ConnectError", "ReadTimeout"} : Raise(exc)
  /\ UNCHANGED << page, pending, dataset, stage1, stage2, log >>

\* await Actor.push_data(data=record)
PushData(record, at) ==
  /\ inflight' = inflight \cup {"push_data"}
  /\ pending' = record
  /\ pc' = at

\* push_data returns: the record is stored
Pushed ==
  /\ inflight' = inflight \ {"push_data"}
  /\ dataset' = Append(dataset, pending)
  /\ pending' = NoRecord

\* push_data raises: nothing is stored and the exception reaches line 305
PushFailed ==
  /\ inflight' = inflight \ {"push_data"}
  /\ pending' = NoRecord
  /\ Raise("ApifyApiError")
  /\ UNCHANGED dataset

\* lines 154-165: one element of one headline selector
HeadlineElement ==
  /\ pc = "headlines"
  /\ h <= Len(headline_elements)
  /\ LET text == headline_elements[h].text
         href == headline_elements[h].href
     IN  IF text # <<>> /\ text \notin extracted_headline_texts
         THEN /\ PushData([type |-> "headline", text |-> text, href |-> href],
                          "await_push_headline")
              /\ UNCHANGED h
         ELSE /\ h' = h + 1
              /\ UNCHANGED << pc, inflight, pending >>
  /\ UNCHANGED << page, caught, dataset, extracted_headline_texts, a,
                  initial_drudge_links, extracted_link_count, filtered_out_count,
                  stage2, log >>

\* lines 159-165: the headline's push_data returns
HeadlinePushed ==
  /\ pc = "await_push_headline"
  /\ \/ /\ Pushed
        /\ extracted_headline_texts' =
             extracted_headline_texts \cup {headline_elements[h].text}
        /\ h' = h + 1
        /\ pc' = "headlines"
        /\ UNCHANGED caught
     \/ /\ PushFailed
        /\ UNCHANGED << extracted_headline_texts, h >>
  /\ UNCHANGED << page, a, initial_drudge_links, extracted_link_count,
                  filtered_out_count, stage2, log >>

\* lines 166-217: the headline loops are over
HeadlinesDone ==
  /\ pc = "headlines"
  /\ h > Len(headline_elements)
  /\ pc' = "links"
  /\ UNCHANGED << page, caught, inflight, pending, dataset, stage1, stage2, log >>

\* line 224: href.startswith('http://') or ('https://') or ('//')
HasAbsolutePrefix(href) ==
  \/ href.scheme = "http" /\ href.slashes
  \/ href.scheme = "https" /\ href.slashes
  \/ href.scheme = "" /\ href.slashes

\* line 226: href.startswith('#'), tested when line 224 is false
IsFragment(href) ==
  /\ ~ HasAbsolutePrefix(href)
  /\ href.scheme = ""
  /\ href.rest # <<>>
  /\ Head(href.rest) = "#"

\* lines 223-229: absolute_href of an href that is not skipped
AbsoluteHref(href) ==
  IF HasAbsolutePrefix(href) THEN href ELSE urljoin(drudge_url, href)

\* line 229: urljoin is outside the try of line 241, its ValueError ends the run
UrljoinRaises(href) ==
  ~ HasAbsolutePrefix(href) /\ ~ IsFragment(href) /\ RaisesValueError(href)

\* lines 231-252: should_exclude
ShouldExclude(text, absolute_href) ==
  KeywordExcluded(text) \/ DomainExcluded(absolute_href)

\* lines 254-260: the link record
LinkRecord(text, absolute_href) ==
  [type |-> "link",
   text |-> IF text # <<>> THEN text ELSE <<"[Link to {absolute_href}]">>,
   href |-> absolute_href]

\* mutant: an anchor whose URL is already in initial_drudge_links is dropped
Survives_Dedup(text, absolute_href) ==
  /\ ~ ShouldExclude(text, absolute_href)
  /\ \A i \in DOMAIN initial_drudge_links : initial_drudge_links[i].href # absolute_href

\* lines 237-254: the anchor goes on to initial_drudge_links and push_data
Survives(text, absolute_href) == ~ ShouldExclude(text, absolute_href)

\* lines 219-260: one anchor, up to its push_data
Anchor ==
  /\ pc = "links"
  /\ a <= Len(anchors)
  /\ LET href == anchors[a].href
         text == anchors[a].text
         absolute_href == AbsoluteHref(href)
     IN  IF IsFragment(href)
         THEN /\ a' = a + 1
              /\ log' = Append(log, Event("anchor", a, "", <<"skipped">>))
              /\ UNCHANGED << pc, caught, inflight, pending, initial_drudge_links,
                              filtered_out_count >>
         ELSE IF UrljoinRaises(href)
         THEN /\ Raise("ValueError")
              /\ log' = Append(log, Event("anchor", a, "ValueError", <<"raised">>))
              /\ UNCHANGED << a, inflight, pending, initial_drudge_links,
                              filtered_out_count >>
         ELSE IF ~ Survives(text, absolute_href)
         THEN /\ filtered_out_count' = filtered_out_count + 1
              /\ a' = a + 1
              /\ log' = Append(log, Event("anchor", a, "", <<"filtered">>))
              /\ UNCHANGED << pc, caught, inflight, pending, initial_drudge_links >>
         ELSE /\ initial_drudge_links' =
                   Append(initial_drudge_links, [text |-> text, href |-> absolute_href])
              /\ PushData(LinkRecord(text, absolute_href), "await_push_link")
              /\ log' = Append(log, Event("anchor", a, "", <<"link">>))
              /\ UNCHANGED << a, caught, filtered_out_count >>
  /\ UNCHANGED << page, dataset, extracted_headline_texts, h, extracted_link_count,
                  stage2 >>

\* lines 255-261: the link's push_data returns
LinkPushed ==
  /\ pc = "await_push_link"
  /\ \/ /\ Pushed
        /\ extracted_link_count' = extracted_link_count + 1
        /\ a' = a + 1
        /\ pc' = "links"
        /\ UNCHANGED caught
     \/ /\ PushFailed
        /\ UNCHANGED << extracted_link_count, a >>
  /\ UNCHANGED << page, extracted_headline_texts, h, initial_drudge_links,
                  filtered_out_count, stage2, log >>

\* mutant: stage two entered whether or not the key is set
Stage2Gate_NoKeyCheck ==
  /\ pc = "links"
  /\ a > Len(anchors)
  /\ pc' = "stage2"
  /\ UNCHANGED << page, caught, inflight, pending, dataset, stage1, stage2, log >>

\* lines 263-270: the anchor loop is over; stage two runs only with a key
Stage2Gate ==
  /\ pc = "links"
  /\ a > Len(anchors)
  /\ pc' = IF openai_api_key = "" THEN "done" ELSE "stage2"
  /\ UNCHANGED << page, caught, inflight, pending, dataset, stage1, stage2, log >>

\* ---------------------------------------------------------- stage two

url == initial_drudge_links[l].href
original_text == initial_drudge_links[l].text

\* line 297 and the loop header: this link is done, on to the next
NextLink ==
  /\ processed_link_count' = processed_link_count + 1
  /\ l' = l + 1
  /\ pc' = "stage2"

\* lines 271-276: the next link_info; await check_iframe_compatibility(url)
ProbeLink ==
  /\ pc = "stage2"
  /\ l <= Len(initial_drudge_links)
  /\ inflight' = inflight \cup {"client.head(url)"}
  /\ log' = Append(log, Event("probe", l, "", url.host))
  /\ pc' = "await_probe"
  /\ UNCHANGED << page, caught, pending, dataset, stage1, processed_link_count, l,
                  probe_response, is_iframe_compatible, article_content,
                  generated_story >>

\* lines 276-280 and 294-297: the probe is over; a link that is not iframe
\* compatible goes on to await get_page_main_content(url)
Probed(resp) ==
  /\ pc = "await_probe"
  /\ probe_response' = resp
  /\ is_iframe_compatible' = check_iframe_compatibility(resp)
  /\ IF ~ is_iframe_compatible'
     THEN /\ inflight' = (inflight \ {"client.head(url)"}) \cup {"client.get(url)"}
          /\ log' = log \o << Event("classified", l, "", <<"Blocked">>),
                              Event("get", l, "", <<>>) >>
          /\ pc' = "await_content"
          /\ UNCHANGED << processed_link_count, l >>
     ELSE /\ inflight' = inflight \ {"client.head(url)"}
          /\ log' = Append(log, Event("classified", l, "", <<"Embeddable">>))
          /\ NextLink
  /\ UNCHANGED << page, caught, pending, dataset, stage1, article_content,
                  generated_story >>

\* what the HEAD of u can do: httpx refuses a URL without an http(s) scheme
\* (UnsupportedProtocol) or with a malformed host (InvalidURL) before any
\* request is sent
ProbeOutcomes(u) ==
  IF u.scheme \notin {"http", "https"} THEN {Probe("UnsupportedProtocol", <<>>, <<>>)}
  ELSE IF RaisesValueError(u) THEN {Probe("InvalidURL", <<>>, <<>>)}
  ELSE RunProbeResponses

\* what the GET of u can do
FetchOutcomes(u) ==
  IF u.scheme \notin {"http", "https"} THEN {[exc |-> "UnsupportedProtocol", doc |-> <<>>]}
  ELSE IF RaisesValueError(u) THEN {[exc |-> "InvalidURL", doc |-> <<>>]}
  ELSE FetchResults

ProbeReturned ==
  /\ pc = "await_probe"
  /\ \E resp \in ProbeOutcomes(url) : Probed(resp)

\* mutant: the story is generated whatever the content
WantsStory_Always(content) == TRUE

\* line 282: `if article_content:` decides whether the story is generated
WantsStory(content) == content # <<>>

\* the generated_story record of lines 284-290
StoryRecord(text, href, story) ==
  [type |-> "generated_story", original_link_text |-> text,
   original_link_href |-> href, generated_story |-> story]

\* lines 280-283 and 292-297: the content is extracted; with content,
\* generate_story_with_openai is entered and, past its own emptiness test
\* (line 91), awaits chat.completions.create
ContentFetched ==
  /\ pc = "await_content"
  /\ \E result \in FetchOutcomes(url) :
       LET content == get_page_main_content(result)
           extracted == Event("extracted", l, "", content)
       IN  /\ article_content' = content
           /\ CASE WantsStory(content) /\ CallsOpenAI(content) ->
                     /\ inflight' = (inflight \ {"client.get(url)"})
                                      \cup {"chat.completions.create"}
                     /\ log' = log \o << extracted, Event("create", l, "", <<>>) >>
                     /\ pc' = "await_openai"
                     /\ UNCHANGED << pending, generated_story, processed_link_count, l >>
                [] WantsStory(content) /\ ~ CallsOpenAI(content) ->
                     /\ generated_story' = NoContentSentinel
                     /\ log' = log \o << extracted,
                                         Event("generated", l, "", NoContentSentinel),
                                         Event("push", l, "", NoContentSentinel) >>
                     /\ inflight' = (inflight \ {"client.get(url)"}) \cup {"push_data"}
                     /\ pending' = StoryRecord(original_text, url, NoContentSentinel)
                     /\ pc' = "await_push_story"
                     /\ UNCHANGED << processed_link_count, l >>
                [] OTHER ->
                     /\ inflight' = inflight \ {"client.get(url)"}
                     /\ log' = Append(log, extracted)
                     /\ NextLink
                     /\ UNCHANGED << pending, generated_story >>
  /\ UNCHANGED << page, caught, dataset, stage1, probe_response, is_iframe_compatible >>

\* mutant: push_data started as a task and not awaited, the loop goes on to
\* the next link at once
StoryGenerated_NoAwait ==
  /\ pc = "await_openai"
  /\ \E out \in OpenAIOutcomes :
       /\ generated_story' = StoryFromOutcome(out)
       /\ log' = log \o << Event("completion", l, out.exc, out.content),
                           Event("generated", l, "", generated_story'),
                           Event("push", l, "", generated_story') >>
  /\ inflight' = (inflight \ {"chat.completions.create"}) \cup {"push_data"}
  /\ pending' = StoryRecord(original_text, url, generated_story')
  /\ NextLink
  /\ UNCHANGED << page, caught, dataset, stage1, probe_response,
                  is_iframe_compatible, article_content >>

\* lines 105-128 and 283-284: the completion call is over, the story record
\* goes to push_data
StoryGenerated ==
  /\ pc = "await_openai"
  /\ \E out \in OpenAIOutcomes :
       /\ generated_story' = StoryFromOutcome(out)
       /\ log' = log \o << Event("completion", l, out.exc, out.content),
                           Event("generated", l, "", generated_story'),
                           Event("push", l, "", generated_story') >>
  /\ inflight' = (inflight \ {"chat.completions.create"}) \cup {"push_data"}
  /\ pending' = StoryRecord(original_text, url, generated_story')
  /\ pc' = "await_push_story"
  /\ UNCHANGED << page, caught, dataset, stage1, processed_link_count, l,
                  probe_response, is_iframe_compatible, article_content >>

\* lines 284-297: the story's push_data returns
StoryPushed ==
  /\ pc = "await_push_story"
  /\ \/ /\ Pushed
        /\ log' = Append(log, Event("stored", l, "", pending.generated_story))
        /\ NextLink
        /\ UNCHANGED caught
     \/ /\ PushFailed
        /\ UNCHANGED << log, processed_link_count, l >>
  /\ UNCHANGED << page, stage1, probe_response, is_iframe_compatible,
                  article_content, generated_story >>

\* line 299: every link_info has been visited
Stage2Done ==
  /\ pc = "stage2"
  /\ l > Len(initial_drudge_links)
  /\ pc' = "done"
  /\ UNCHANGED << page, caught, inflight, pending, dataset, stage1, stage2, log >>

Next ==
  \/ FetchDrudge
  \/ DrudgeFetched
  \/ HeadlineElement
  \/ HeadlinePushed
  \/ HeadlinesDone
  \/ Anchor
  \/ LinkPushed
  \/ Stage2Gate
  \/ ProbeLink
  \/ ProbeReturned
  \/ ContentFetched
  \/ StoryGenerated
  \/ StoryPushed
  \/ Stage2Done

Spec == Init /\ [][Next]_vars

\* main() has returned
Done == pc = "done"

\* --------------------------------------------- check_iframe_compatibility alone

\* main() awaiting the probe of its only link
InitClassify ==
  /\ headline_elements = <<>>
  /\ anchors = << [href |-> Href("https", TRUE, <<"example.org">>, <<>>),
                  text |-> <<"n", "e", "w", "s">>] >>
  /\ openai_api_key = "sk"
  /\ pc = "await_probe"
  /\ caught = NotCaught
  /\ inflight = {"client.head(url)"}
  /\ pending = NoRecord
  /\ dataset = << LinkRecord(anchors[1].text, anchors[1].href) >>
  /\ extracted_headline_texts = {}
  /\ h = 1
  /\ a = 2
  /\ initial_drudge_links = << [text |-> anchors[1].text, href |-> anchors[1].href] >>
  /\ extracted_link_count = 1
  /\ filtered_out_count = 0
  /\ processed_link_count = 0
  /\ l = 1
  /\ probe_response = Probe("", <<>>, <<>>)
  /\ is_iframe_compatible = FALSE
  /\ article_content = <<>>
  /\ generated_story = <<>>
  /\ log = << Event("anchor", 1, "", <<"link">>), Event("probe", 1, "", <<"example.org">>) >>

\* the probe returns any of the responses
Classify ==
  /\ pc = "await_probe"
  /\ \E resp \in ProbeResponses : Probed(resp)

SpecClassify == InitClassify /\ [][Classify]_vars

\* ------------------------------------------------------- reading the history

\* the positions of the events `ev` of link i in the log
EventsOf(ev, i) == { k \in DOMAIN log : log[k].ev = ev /\ log[k].link = i }

HasEvent(ev, i, val) == \E k \in EventsOf(ev, i) : log[k].val = val

Links == DOMAIN initial_drudge_links

\* link i went through its whole iteration (line 297 counted it)
Completed(i) == i <= processed_link_count

IsStory(r) == r.type = "generated_story"
IsLink(r) == r.type = "link"
IsHeadline(r) == r.type = "headline"

\* the generated_story records stored for link i: the k-th stored story is
\* the k-th "stored" event
StoredEvents == SelectSeq(log, LAMBDA e : e.ev = "stored")
StoredStories == SelectSeq(dataset, IsStory)

\* ------------------------------------------------------------------ C5

FrameSources == {"'none'", "'src'"}

\* C5 as stated: the reference table.  Blocked on a failed probe; else on
\* X-Frame-Options deny / sameorigin in any case; else on a frame-ancestors
\* directive whose value contains 'none' or 'src'; else Embeddable.
RefBlocked(resp) ==
  \/ resp.exc # ""
  \/ Lower(resp.xfo) \in { <<"deny">>, <<"sameorigin">> }
  \/ \E k \in DOMAIN resp.csp :
       /\ resp.csp[k].name = "frame-ancestors"
       /\ \E j \in DOMAIN resp.csp[k].sources : resp.csp[k].sources[j] \in FrameSources

\* C5 (original statement): classify(url) equals the reference table for
\* every probe outcome, X-Frame-Options value and CSP value.
C5_ReferenceTable ==
  pc # "await_probe" => (is_iframe_compatible <=> ~ RefBlocked(probe_response))

\* the table the code implements: in step (3) the source expression must
\* follow the directive name directly ("frame-ancestors 'none'")
AmendedBlocked(resp) ==
  \/ resp.exc # ""
  \/ Lower(resp.xfo) \in { <<"deny">>, <<"sameorigin">> }
  \/ \E k \in DOMAIN resp.csp :
       /\ resp.csp[k].name = "frame-ancestors"
       /\ resp.csp[k].sources # <<>>
       /\ resp.csp[k].sources[1] \in FrameSources

\* C5 (amended): classify(url) is Blocked exactly on a failed probe, on an
\* X-Frame-Options of deny / sameorigin in any letter case (whatever the
\* CSP), or on a CSP text containing "frame-ancestors 'none'" or
\* "frame-ancestors 'src'", the source directly after the directive name;
\* every other response is Embeddable.
C5_AmendedTable ==
  pc # "await_probe" => (is_iframe_compatible <=> ~ AmendedBlocked(probe_response))

\* a 2xx response without X-Frame-Options, blocked by its CSP alone, and one
\* whose frame-ancestors lists 'none' second, classified Embeddable
C5_Witness ==
  /\ pc # "await_probe"
  /\ probe_response.exc = ""
  /\ probe_response.xfo = <<>>
  /\ \/ /\ ~ is_iframe_compatible
        /\ probe_response.csp = << [name |-> "script-src", sources |-> <<"'none'">>],
                                   [name |-> "frame-ancestors", sources |-> <<"'src'">>] >>
     \/ /\ is_iframe_compatible
        /\ probe_response.csp = << [name |-> "frame-ancestors",
                                    sources |-> <<"'self'", "'none'">>] >>

\* ------------------------------------------------------------------ C1

Count(ev, i) == Cardinality(EventsOf(ev, i))

Embeddable(i) == HasEvent("classified", i, <<"Embeddable">>)
Blocked(i) == HasEvent("classified", i, <<"Blocked">>)
ExtractedEmpty(i) == HasEvent("extracted", i, <<>>)
ExtractedContent(i) == \E k \in EventsOf("extracted", i) : log[k].val # <<>>

\* link i is at the await of chat.completions.create
Synthesizing(i) == pc = "await_openai" /\ l = i

\* body is raw without its leading and trailing blanks
IsTrimOf(body, raw) ==
  /\ body # <<>> => body[1] # " " /\ body[Len(body)] # " "
  /\ \E m \in 0..Len(raw) :
       /\ m + Len(body) <= Len(raw)
       /\ SubSeq(raw, m + 1, m + Len(body)) = body
       /\ \A k \in 1..Len(raw) : (k <= m \/ k > m + Len(body)) => raw[k] = " "

\* the stored generated_story records are those of the "stored" events
StoredAsLogged ==
  /\ Len(StoredStories) = Len(StoredEvents)
  /\ \A k \in DOMAIN StoredEvents :
       StoredStories[k] =
         StoryRecord(initial_drudge_links[StoredEvents[k].link].text,
                     initial_drudge_links[StoredEvents[k].link].href,
                     StoredEvents[k].val)

\* C1: a link classified Embeddable gets no content fetch, no synthesis call
\* and no generated_story record; a link classified Blocked whose extracted
\* content is non-empty gets one synthesis call and, once that call is over,
\* exactly one generated_story record handed to push_data (stored once the
\* link's iteration completes), whose body, when the call returned a text, is
\* that text trimmed.
C1_Routing ==
  /\ StoredAsLogged
  /\ \A i \in Links :
       /\ Embeddable(i) =>
            /\ Count("get", i) = 0
            /\ Count("create", i) = 0
            /\ Count("push", i) = 0
            /\ Count("stored", i) = 0
       /\ (Blocked(i) /\ ExtractedContent(i)) =>
            /\ Count("create", i) = 1
            /\ Count("push", i) = (IF Synthesizing(i) THEN 0 ELSE 1)
            /\ Count("stored", i) <= 1
            /\ Completed(i) => Count("stored", i) = 1
            /\ \A k \in EventsOf("completion", i) :
                 (log[k].exc = "" /\ log[k].val # <<"None">>) =>
                   \A j \in EventsOf("push", i) \cup EventsOf("stored", i) :
                     IsTrimOf(log[j].val, log[k].val)

\* one link skipped as Embeddable, another Blocked with content whose story,
\* the trimmed response, is stored
C1_Witness ==
  \E i, j \in Links :
    /\ Completed(i) /\ Completed(j)
    /\ Embeddable(i)
    /\ Blocked(j) /\ ExtractedContent(j)
    /\ HasEvent("completion", j, <<" ", "s", " ">>)
    /\ HasEvent("stored", j, <<"s">>)

\* ------------------------------------------------------------------ C2

\* C2 (original statement): every link not classified Embeddable gets
\* extraction, synthesis and exactly one generated_story record, whose body
\* is the no-content sentinel when the extracted content is empty.
C2_AlwaysOneStory ==
  \A i \in Links :
    (Completed(i) /\ Blocked(i)) =>
      /\ Count("extracted", i) = 1
      /\ Count("stored", i) = 1
      /\ ExtractedEmpty(i) => HasEvent("stored", i, NoContentSentinel)

\* C2 (amended): every link not classified Embeddable gets one extraction;
\* with empty content there is no synthesis call and no generated_story
\* record for it (the no-content sentinel never reaches push_data); with
\* content there is one synthesis call and exactly one record.
C2_StoryOnlyWithContent ==
  /\ \A k \in DOMAIN dataset :
       IsStory(dataset[k]) => dataset[k].generated_story # NoContentSentinel
  /\ \A i \in Links :
       Blocked(i) =>
         /\ Count("get", i) = 1
         /\ Count("extracted", i) <= 1
         /\ Completed(i) => Count("extracted", i) = 1
         /\ ExtractedEmpty(i) =>
              /\ Count("create", i) = 0
              /\ Count("generated", i) = 0
              /\ Count("push", i) = 0
              /\ Count("stored", i) = 0
         /\ ExtractedContent(i) =>
              /\ Count("create", i) = 1
              /\ Count("push", i) <= 1
              /\ Completed(i) => Count("stored", i) = 1

\* a Blocked link whose extraction came back empty was left without a record
C2_Witness ==
  \E i \in Links :
    /\ Completed(i)
    /\ Blocked(i)
    /\ ExtractedEmpty(i)
    /\ StoredStories = <<>>

\* ------------------------------------------------------------------ C9

OpenAIExceptions ==
  {"APIConnectionError", "APITimeoutError", "RateLimitError", "InternalServerError"}

\* the sentinel of each failure kind
SentinelOf(exc) ==
  CASE exc \in {"APIConnectionError", "APITimeoutError"} -> ConnectionSentinel
    [] exc = "RateLimitError" -> RateLimitSentinel
    [] exc = "InternalServerError" -> StatusSentinel
    [] OTHER -> GeneralSentinel

FailedCompletion(k) ==
  log[k].ev = "completion" /\ (log[k].exc # "" \/ log[k].val = <<"None">>)

\* C9: a link with content gets at most one synthesis call; a failed call
\* becomes the sentinel of its failure kind (four distinct sentinels) in the
\* record handed to push_data, the failure reaches no except clause of
\* main(), and a link whose iteration completes has that record stored.
C9_Sentinels ==
  /\ Cardinality({ConnectionSentinel, RateLimitSentinel, StatusSentinel,
                  GeneralSentinel}) = 4
  /\ caught.exc \notin OpenAIExceptions \cup {"AttributeError"}
  /\ pc = "await_push_story" => caught = NotCaught
  /\ \A i \in Links :
       /\ Count("create", i) <= 1
       /\ Count("completion", i) <= Count("create", i)
  /\ \A k \in DOMAIN log :
       FailedCompletion(k) =>
         /\ log[k + 1].ev = "generated" /\ log[k + 1].val = SentinelOf(log[k].exc)
         /\ log[k + 2].ev = "push" /\ log[k + 2].val = SentinelOf(log[k].exc)
         /\ pending # NoRecord /\ l = log[k].link =>
              pending = StoryRecord(original_text, url, SentinelOf(log[k].exc))
         /\ Completed(log[k].link) =>
              HasEvent("stored", log[k].link, SentinelOf(log[k].exc))

\* a rate-limited call and a timed-out call, each stored under its own
\* sentinel, the loop having gone on after the first
C9_Witness ==
  \E i, j \in Links :
    /\ i < j /\ Completed(j)
    /\ \E k \in EventsOf("completion", i) : log[k].exc = "RateLimitError"
    /\ \E k \in EventsOf("completion", j) : log[k].exc = "APITimeoutError"
    /\ HasEvent("stored", i, RateLimitSentinel)
    /\ HasEvent("stored", j, ConnectionSentinel)

\* ------------------------------------------------------------------ C10

Stage2Events == SelectSeq(log, LAMBDA e : e.ev # "anchor")

LinkRecords == SelectSeq(dataset, IsLink)

\* C10: at most one external call is in flight; every event of a link
\* (probe, fetch, synthesis, push, store) precedes the probe of the next
\* link, so a probe is issued with nothing else in flight; and the stored
\* generated_story records follow the order of their links' link records.
C10_Sequential ==
  /\ Cardinality(inflight) <= 1
  /\ \A k \in DOMAIN Stage2Events :
       /\ k > 1 => Stage2Events[k - 1].link <= Stage2Events[k].link
       /\ (k > 1 /\ Stage2Events[k].ev = "probe") =>
            /\ Stage2Events[k - 1].link < Stage2Events[k].link
            /\ Stage2Events[k - 1].ev \in {"classified", "extracted", "stored"}
  /\ \A i \in Links : Count("probe", i) <= 1
  /\ \A j, k \in DOMAIN StoredEvents :
       j < k => StoredEvents[j].link < StoredEvents[k].link
  /\ \A k \in DOMAIN StoredEvents :
       /\ StoredEvents[k].link \in DOMAIN LinkRecords
       /\ StoredStories[k].original_link_href = LinkRecords[StoredEvents[k].link].href

\* two links each with a stored story, the second probed after the first
\* story was stored
C10_Witness ==
  /\ Len(StoredEvents) = 2
  /\ \E k \in DOMAIN log :
       /\ k > 1
       /\ log[k].ev = "probe" /\ log[k].link = 2
       /\ log[k - 1].ev = "stored" /\ log[k - 1].link = 1

\* ------------------------------------------------------------------ C3

Stage2Positions ==
  {"stage2", "await_probe", "await_content", "await_openai", "await_push_story"}

Stage2Calls == {"client.head(url)", "client.get(url)", "chat.completions.create"}

\* stage one went through all its anchors: main() is in stage two, or
\* returned from it or from the gate of line 266
Stage1Finished ==
  pc \in Stage2Positions \/ (Done /\ (caught = NotCaught \/ Stage2Events # <<>>))

\* what the fetch of the aggregator page can raise
FetchExceptions == {"HTTPStatusError", "ConnectError", "ReadTimeout"}

\* the headline records of a page: one per non-empty text not seen before
RECURSIVE ExpectedHeadlines(_, _)
ExpectedHeadlines(elements, seen) ==
  IF elements = <<>> THEN <<>>
  ELSE LET e == Head(elements)
       IN  IF e.text # <<>> /\ e.text \notin seen
           THEN << [type |-> "headline", text |-> e.text, href |-> e.href] >>
                \o ExpectedHeadlines(Tail(elements), seen \cup {e.text})
           ELSE ExpectedHeadlines(Tail(elements), seen)

\* the link records of a page none of whose hrefs makes urljoin raise
RECURSIVE ExpectedLinks(_)
ExpectedLinks(ans) ==
  IF ans = <<>> THEN <<>>
  ELSE LET an == Head(ans)
       IN  IF IsFragment(an.href) \/ ShouldExclude(an.text, AbsoluteHref(an.href))
           THEN ExpectedLinks(Tail(ans))
           ELSE << LinkRecord(an.text, AbsoluteHref(an.href)) >>
                \o ExpectedLinks(Tail(ans))

\* C3: without a key no probe, no content fetch and no synthesis call is
\* made and no generated_story record is stored; a run without a key whose
\* page was fetched and whose two loops ran to their end returns without an
\* exception; and the headline and link records of a run whose stage one
\* is through are those of the page alone, the same with and without a key.
C3_NoKeyNoStage2 ==
  /\ openai_api_key = "" =>
       /\ Stage2Events = <<>>
       /\ StoredStories = <<>>
       /\ inflight \cap Stage2Calls = {}
       /\ pc \notin Stage2Positions
       /\ (/\ Done
           /\ h > Len(headline_elements)
           /\ a > Len(anchors)
           /\ caught.exc \notin FetchExceptions) => caught = NotCaught
  /\ Stage1Finished =>
       SelectSeq(dataset, LAMBDA r : IsHeadline(r) \/ IsLink(r))
         = ExpectedHeadlines(headline_elements, {}) \o ExpectedLinks(anchors)

\* a run without a key that ended with its headline and link records stored
C3_Witness ==
  /\ openai_api_key = ""
  /\ Done
  /\ caught = NotCaught
  /\ initial_drudge_links # <<>>
  /\ \E k \in DOMAIN dataset : IsHeadline(dataset[k])
  /\ Len(LinkRecords) = Len(initial_drudge_links)

\* ------------------------------------------------------------------ C4

FullyQualified(u) == u.scheme # "" /\ u.slashes /\ u.host # NoHost

\* C6 (as stated): every href of a link record, and every URL handed to
\* stage two, has a scheme and a host.
C6_FullyQualified ==
  /\ \A k \in DOMAIN LinkRecords : FullyQualified(LinkRecords[k].href)
  /\ \A i \in Links : FullyQualified(initial_drudge_links[i].href)

\* ------------------------------------------------------------------ C7

\* the Domain Policy as C7 words it: a keyword in the lower-cased text, or
\* the hostname of the URL (resolved against the page when relative),
\* lower-cased, one leading "www." removed, in the blocklist; a hostname that
\* cannot be parsed is not excluded
PolicyExcludes(an) ==
  LET u == IF an.href.scheme = "" /\ ~ an.href.slashes THEN drudge_url ELSE an.href
      host == Lower(u.host)
      bare == IF Len(host) >= 2 /\ host[1] = "www" THEN Tail(host) ELSE host
  IN  \/ \E k \in DOMAIN excluded_text_keywords :
           Contains(Lower(an.text), excluded_text_keywords[k])
      \/ ~ RaisesValueError(u) /\ bare \in excluded_domains

NonFragment(href) ==
  ~ (href.scheme = "" /\ ~ href.slashes /\ href.rest # <<>> /\ Head(href.rest) = "#")

\* C7 (as stated): an anchor with a non-fragment href is given a link record
\* if and only if the Domain Policy does not exclude it.
C7_PolicyDecides ==
  \A k \in DOMAIN log :
    log[k].ev = "anchor" =>
      LET an == anchors[log[k].link]
      IN  NonFragment(an.href) =>
            (log[k].val = <<"link">> <=> ~ PolicyExcludes(an))

\* ------------------------------------------------------------------ C8

RECURSIVE LinkAnchors(_)
LinkAnchors(events) ==
  IF events = <<>> THEN <<>>
  ELSE IF Head(events).ev = "anchor" /\ Head(events).val = <<"link">>
  THEN <<anchors[Head(events).link]>> \o LinkAnchors(Tail(events))
  ELSE LinkAnchors(Tail(events))

====
